---------------------------- MODULE Spec2Model ----------------------------
(***************************************************************************)
(* Model of checkin.py: the calendar filter (get_todays_events), the       *)
(* conference-day classifier (is_conference_day), the survey driver        *)
(* (submit_survey) and the entry point (main).                             *)
(*                                                                         *)
(* Text is a sequence of one-character strings; a literal of an f-string   *)
(* is kept as one element.  Time is counted in whole hours: an instant is  *)
(* a number of hours since day 0, 00:00 UTC; a zone is its UTC offset in   *)
(* hours; a wall-clock value is a day number and an hour of that day.      *)
(* The clock does not advance during a run and a zone keeps one offset.    *)
(*                                                                         *)
(* A Playwright call that the page decides (the two clicks on the next and *)
(* submit controls) is computed from the controls of the page; every other *)
(* Playwright call either succeeds or raises.  page.pause() is one step    *)
(* that ends when the operator resumes, or raises.                         *)
(***************************************************************************)
EXTENDS Integers, Sequences, FiniteSets, TLC

VARIABLES
    now,            \* the system clock: the instant of the run (UTC hours)
    tzOffset,       \* CONFIG["timezone"], as a UTC offset
    sysOffset,      \* the zone of the machine (what datetime.now() uses)
    skip_keywords,  \* CONFIG["skip_keywords"]
    args,           \* the parsed command line: time, dry_run, force
    pc,             \* the position of the run
    cal,            \* main: cal, the components cal.walk() yields
    lecture_time,   \* the lecture_time parameter of the function running
    events,         \* main: events
    is_conf,        \* main: is_conf
    reason,         \* main: reason
    out,            \* what main printed, as a sequence of message tags
    exit_code,      \* the process exit code
    submit_calls,   \* how many times submit_survey was entered
    today_str,      \* submit_survey: today
    playwright,     \* the sync_playwright() context
    browser,        \* the browser of submit_survey
    page,           \* the controls of the page the browser shows
    log,            \* what submit_survey did to the browser, in order
    date_field,     \* the content of the date input of page 2
    error,          \* submit_survey: the step whose exception was caught
    raising,        \* an exception is propagating out of submit_survey
    success         \* what submit_survey returns

vars == << now, tzOffset, sysOffset, skip_keywords, args, pc, cal,
           lecture_time, events, is_conf, reason, out, exit_code,
           submit_calls, today_str, playwright, browser, page, log,
           date_field, error, raising, success >>

---------------------------------------------------------------------------
\* Bounds of the model

MaxEvents == 2

MaxKeywords == 2

MaxComponents == 2

MaxControls == 2

---------------------------------------------------------------------------
\* Text

NoValue == "None"

\* str.lower() on one character
LowerChar(c) ==
    CASE c = "A" -> "a"
      [] c = "D" -> "d"
      [] c = "E" -> "e"
      [] c = "G" -> "g"
      [] c = "R" -> "r"
      [] c = "W" -> "w"
      [] OTHER -> c

\* str.lower()
Lower(s) == [i \in 1..Len(s) |-> LowerChar(s[i])]

\* needle in hay
Contains(hay, needle) ==
    \E i \in 1..(Len(hay) - Len(needle) + 1) :
        SubSeq(hay, i, i + Len(needle) - 1) = needle

\* sep.join(parts)
RECURSIVE Join(_, _)
Join(sep, parts) ==
    IF parts = << >> THEN << >>
    ELSE IF Len(parts) = 1 THEN parts[1]
    ELSE parts[1] \o sep \o Join(sep, Tail(parts))

\* the sequences over S of length at most n
SeqsUpTo(S, n) == UNION {[1..k -> S] : k \in 0..n}

---------------------------------------------------------------------------
\* is_conference_day

\* a configured keyword that is not text (the configuration is not validated)
NonText == <<"<int>">>

IsText(k) == k # NonText

KeywordMatches(summary, keyword) == Contains(Lower(summary), Lower(keyword))

\* the inner loop: the first keyword of kws, from position j on, found in the
\* summary; 0 when there is none; -1 when keyword.lower() raises first
RECURSIVE ScanKeywords(_, _, _)
ScanKeywords(summary, kws, j) ==
    IF j > Len(kws) THEN 0
    ELSE IF ~IsText(kws[j]) THEN -1
    ELSE IF KeywordMatches(summary, kws[j]) THEN j
    ELSE ScanKeywords(summary, kws, j + 1)

\* the outer loop without its early return: the last matching event wins
RECURSIVE ScanEventsLastWins(_, _, _)
ScanEventsLastWins(evs, kws, i) ==
    IF i > Len(evs) THEN <<0, 0>>
    ELSE LET j == ScanKeywords(evs[i].summary, kws, 1)
             rest == ScanEventsLastWins(evs, kws, i + 1)
         IN  IF j = -1 THEN <<i, j>>
             ELSE IF rest[1] # 0 THEN rest
             ELSE IF j = 0 THEN <<0, 0>> ELSE <<i, j>>

\* the outer loop: the first event, from position i on, with a matching
\* keyword, as <<event index, keyword index>>; <<0, 0>> when there is none
RECURSIVE ScanEvents(_, _, _)
ScanEvents(evs, kws, i) ==
    IF i > Len(evs) THEN <<0, 0>>
    ELSE LET j == ScanKeywords(evs[i].summary, kws, 1)
         IN  IF j = 0 THEN ScanEvents(evs, kws, i + 1) ELSE <<i, j>>

\* the join with a separator that lost its blank
EventNamesComma(evs) == Join(<<",">>, [i \in 1..Len(evs) |-> evs[i].summary])

EventNames(evs) == Join(<<",", " ">>, [i \in 1..Len(evs) |-> evs[i].summary])

is_conference_day(evs, kws) ==
    IF evs = << >>
    THEN [raised |-> FALSE, is_conf |-> FALSE,
          reason |-> <<"No events found for today">>]
    ELSE LET hit == ScanEvents(evs, kws, 1)
         IN  IF hit[2] = -1
             THEN [raised |-> TRUE, is_conf |-> FALSE, reason |-> << >>]
             ELSE IF hit[1] # 0
             THEN [raised |-> FALSE, is_conf |-> FALSE,
                   reason |-> <<"Found skip keyword '">> \o kws[hit[2]]
                              \o <<"' in event: ">> \o evs[hit[1]].summary]
             ELSE [raised |-> FALSE, is_conf |-> TRUE,
                   reason |-> <<"Conference day detected. Events: ">>
                              \o EventNames(evs)]

---------------------------------------------------------------------------
\* Dates and times

\* datetime.now(zone): the wall clock of a zone at the instant t
WallClock(t, offset) == [day |-> (t + offset) \div 24, hour |-> (t + offset) % 24]

\* DTSTART values.  A date has no hour; a date-time is a wall-clock value,
\* naive (no tzinfo) or aware (with the UTC offset of its own zone).
NoDtStart == [kind |-> "none", day |-> 0, hour |-> 0, aware |-> FALSE, utcoffset |-> 0]

DateValue(d) == [kind |-> "date", day |-> d, hour |-> 0, aware |-> FALSE, utcoffset |-> 0]

NaiveDateTime(d, h) ==
    [kind |-> "datetime", day |-> d, hour |-> h, aware |-> FALSE, utcoffset |-> 0]

AwareDateTime(d, h, off) ==
    [kind |-> "datetime", day |-> d, hour |-> h, aware |-> TRUE, utcoffset |-> off]

\* the instant an aware date-time denotes
InstantOf(dt) == 24 * dt.day + dt.hour - dt.utcoffset

\* dt.astimezone(tz) for an aware dt, dt.replace(tzinfo=tz) for a naive one
LocalDt(dt, tz) ==
    IF dt.aware THEN WallClock(InstantOf(dt), tz)
    ELSE [day |-> dt.day, hour |-> dt.hour]

\* the civil date of a day number (the days of the model lie around a new year)
Civil(d) ==
    IF d <= 2 THEN [year |-> 2024, month |-> 12, day |-> 29 + d]
    ELSE [year |-> 2025, month |-> 1, day |-> d - 2]

Digit(n) == ToString(n)

Pad2(n) == <<Digit(n \div 10), Digit(n % 10)>>

Pad4(n) == <<Digit(n \div 1000), Digit((n \div 100) % 10),
             Digit((n \div 10) % 10), Digit(n % 10)>>

\* date.strftime("%m/%d/%Y")
FormatDate(c) == Pad2(c.month) \o <<"/">> \o Pad2(c.day) \o <<"/">> \o Pad4(c.year)

---------------------------------------------------------------------------
\* get_todays_events

\* time_windows.get(lecture_time, (0, 24))
time_windows(lt) ==
    CASE lt = "8AM"  -> <<7, 10>>
      [] lt = "12PM" -> <<11, 14>>
      [] OTHER       -> <<0, 24>>

\* the time-window test without its hasattr guard
HasHourAlways(dt) == TRUE

\* hasattr(event_dt, "hour")
HasHour(dt) == dt.kind = "datetime"

\* the time-window test of one event: TRUE when the event passes
InWindow(dt, tz, lt) ==
    IF lt # NoValue /\ HasHour(dt)
    THEN LET w == time_windows(lt)
         IN  w[1] <= LocalDt(dt, tz).hour /\ LocalDt(dt, tz).hour < w[2]
    ELSE TRUE

\* event_date: event_dt.date() of a date-time, event_dt itself of a date
EventDate(dt) == dt.day

\* one pass of the loop keeps the component
Keeps(component, today, tz, lt) ==
    /\ component.name = "VEVENT"
    /\ component.dtstart # NoDtStart
    /\ EventDate(component.dtstart) = today
    /\ InWindow(component.dtstart, tz, lt)

\* str(component.get("SUMMARY", ""))
SummaryOf(component) == IF component.has_summary THEN component.summary ELSE << >>

get_todays_events(c, t, tz, lt) ==
    LET today == WallClock(t, tz).day
        Keep(x) == Keeps(x, today, tz, lt)
        kept == SelectSeq(c, Keep)
    IN  [i \in 1..Len(kept) |->
            [summary |-> SummaryOf(kept[i]), start |-> kept[i].dtstart]]

---------------------------------------------------------------------------
\* The survey pages and the locators of submit_survey

\* A control of a page: its tag, whether it carries aria-label='Next',
\* whether its text holds the arrow, whether it carries class NextButton.
Control(tag, aria, arrow, cls) ==
    [tag |-> tag, aria_next |-> aria, arrow |-> arrow, next_class |-> cls]

NoControl == Control("none", FALSE, FALSE, FALSE)

Controls ==
    { Control("button", FALSE, FALSE, FALSE),
      Control("button", TRUE, FALSE, FALSE),
      Control("button", FALSE, TRUE, FALSE),
      Control("input", FALSE, FALSE, TRUE) }

Pages == SeqsUpTo(Controls, MaxControls)

\* page.locator("button[aria-label='Next']")
AriaNext(pg) == {i \in DOMAIN pg : pg[i].tag = "button" /\ pg[i].aria_next}

\* page.locator("button:has-text('->')")
ArrowText(pg) == {i \in DOMAIN pg : pg[i].tag = "button" /\ pg[i].arrow}

\* page.locator(".NextButton")
NextButtonClass(pg) == {i \in DOMAIN pg : pg[i].next_class}

\* page.locator("button >> nth=-1")
LastButton(pg) ==
    LET b == {i \in DOMAIN pg : pg[i].tag = "button"}
    IN  {i \in b : \A j \in b : j <= i}

\* a.or_(b): the elements that match one or both
Or(a, b) == a \cup b

\* the locator of the page-1 advance
NextLocator(pg) ==
    Or(Or(Or(AriaNext(pg), ArrowText(pg)), NextButtonClass(pg)), LastButton(pg))

\* the page-2 submit with the locator of the page-1 advance
SubmitLocatorWithLastButton(pg) == NextLocator(pg)

\* the locator of the page-2 submit
SubmitLocator(pg) == Or(Or(AriaNext(pg), ArrowText(pg)), NextButtonClass(pg))

\* locator.click(): the element clicked, 0 when the click raises (a locator
\* that matches nothing times out, one that matches several elements is a
\* strictness violation)
Click(matches) ==
    IF Cardinality(matches) = 1 THEN CHOOSE i \in matches : TRUE ELSE 0

Entry(ev, pg, i) ==
    [ev |-> ev, idx |-> i, ctl |-> IF i = 0 THEN NoControl ELSE pg[i]]

Logged(ev) == \E k \in DOMAIN log : log[k].ev = ev

---------------------------------------------------------------------------
\* submit_survey

\* the exit of the with block: the playwright context stops, and with it a
\* browser that is still running
WithExit(b) == IF b = "open" THEN "closed" ELSE b

\* the exception a step raises inside the try statement reaches the except
\* clause as e
Caught(step) == error' = IF pc' = "sv_except" THEN step ELSE error

\* with sync_playwright() as p
SvStart ==
    /\ pc = "sv_start"
    /\ \E ok \in BOOLEAN :
        IF ok
        THEN /\ playwright' = "running"
             /\ pc' = "sv_launch"
             /\ UNCHANGED <<raising, exit_code>>
        ELSE /\ raising' = TRUE
             /\ exit_code' = 1
             /\ pc' = "exit"
             /\ UNCHANGED playwright
    /\ UNCHANGED << now, tzOffset, sysOffset, skip_keywords, args, cal,
                    lecture_time, events, is_conf, reason, out, submit_calls,
                    today_str, browser, page, log, date_field, success, error >>

\* browser = p.chromium.launch(headless=not dry_run)
SvLaunch ==
    /\ pc = "sv_launch"
    /\ \E ok \in BOOLEAN :
        IF ok
        THEN /\ browser' = "open"
             /\ pc' = "sv_new_page"
             /\ UNCHANGED <<raising, exit_code, playwright>>
        ELSE /\ playwright' = "stopped"
             /\ raising' = TRUE
             /\ exit_code' = 1
             /\ pc' = "exit"
             /\ UNCHANGED browser
    /\ UNCHANGED << now, tzOffset, sysOffset, skip_keywords, args, cal,
                    lecture_time, events, is_conf, reason, out, submit_calls,
                    today_str, page, log, date_field, success, error >>

\* page = browser.new_page(), before the try statement
SvNewPage ==
    /\ pc = "sv_new_page"
    /\ \E ok \in BOOLEAN :
        IF ok
        THEN /\ pc' = "sv_goto"
             /\ UNCHANGED <<raising, exit_code, playwright, browser>>
        ELSE /\ playwright' = "stopped"
             /\ browser' = WithExit(browser)
             /\ raising' = TRUE
             /\ exit_code' = 1
             /\ pc' = "exit"
    /\ UNCHANGED << now, tzOffset, sysOffset, skip_keywords, args, cal,
                    lecture_time, events, is_conf, reason, out, submit_calls,
                    today_str, page, log, date_field, success, error >>

\* page.goto(survey_url, ...); page.wait_for_timeout(1000)
SvGoto ==
    /\ pc = "sv_goto"
    /\ \/ \E p1 \in Pages : page' = p1 /\ pc' = "sv_page1"
       \/ pc' = "sv_except" /\ UNCHANGED page
    /\ UNCHANGED << now, tzOffset, sysOffset, skip_keywords, args, cal,
                    lecture_time, events, is_conf, reason, out, exit_code,
                    submit_calls, today_str, playwright, browser, log,
                    date_field, raising, success >>
    /\ Caught("goto")

\* name_field.fill(name); general_conf.click()
SvPage1 ==
    /\ pc = "sv_page1"
    /\ \E ok \in BOOLEAN :
        pc' = IF ~ok THEN "sv_except"
              ELSE IF args.dry_run THEN "sv_pause1" ELSE "sv_next"
    /\ UNCHANGED << now, tzOffset, sysOffset, skip_keywords, args, cal,
                    lecture_time, events, is_conf, reason, out, exit_code,
                    submit_calls, today_str, playwright, browser, page, log,
                    date_field, raising, success >>
    /\ Caught("page1")

\* if dry_run: page.pause(), on page 1
SvPause1 ==
    /\ pc = "sv_pause1"
    /\ log' = Append(log, Entry("pause1", page, 0))
    /\ \E ok \in BOOLEAN : pc' = IF ok THEN "sv_next" ELSE "sv_except"
    /\ UNCHANGED << now, tzOffset, sysOffset, skip_keywords, args, cal,
                    lecture_time, events, is_conf, reason, out, exit_code,
                    submit_calls, today_str, playwright, browser, page,
                    date_field, raising, success >>
    /\ Caught("pause1")

\* the click on the next arrow; page.wait_for_timeout(1000)
SvNext ==
    /\ pc = "sv_next"
    /\ LET i == Click(NextLocator(page))
       IN  IF i # 0
           THEN /\ log' = Append(log, Entry("click_next", page, i))
                /\ \E p2 \in Pages : page' = p2
                /\ pc' = "sv_date"
           ELSE /\ pc' = "sv_except"
                /\ UNCHANGED <<log, page>>
    /\ Caught("next")
    /\ UNCHANGED << now, tzOffset, sysOffset, skip_keywords, args, cal,
                    lecture_time, events, is_conf, reason, out, exit_code,
                    submit_calls, today_str, playwright, browser,
                    date_field, raising, success >>

\* date_field.click(); date_field.fill(""); date_field.fill(today)
SvDate ==
    /\ pc = "sv_date"
    /\ \/ /\ date_field' = today_str
          /\ log' = Append(log, Entry("fill_date", page, 0))
          /\ pc' = "sv_time"
       \/ /\ pc' = "sv_except"
          /\ UNCHANGED <<date_field, log>>
    /\ Caught("date")
    /\ UNCHANGED << now, tzOffset, sysOffset, skip_keywords, args, cal,
                    lecture_time, events, is_conf, reason, out, exit_code,
                    submit_calls, today_str, playwright, browser, page,
                    raising, success >>

\* time_option.click(), the three Likert answers and the comment
SvAnswers ==
    /\ pc = "sv_time"
    /\ \E ok \in BOOLEAN : pc' = IF ok THEN "sv_finish" ELSE "sv_except"
    /\ UNCHANGED << now, tzOffset, sysOffset, skip_keywords, args, cal,
                    lecture_time, events, is_conf, reason, out, exit_code,
                    submit_calls, today_str, playwright, browser, page, log,
                    date_field, raising, success >>
    /\ Caught("answers")

\* the end of page 2 with the click after the pause of a dry run
SvFinishSubmitsAfterPause ==
    /\ pc = "sv_finish"
    /\ LET i == Click(SubmitLocator(page))
           paused == IF args.dry_run THEN <<Entry("pause2", page, 0)>> ELSE << >>
       IN  IF i # 0
           THEN /\ log' = log \o paused \o <<Entry("click_submit", page, i)>>
                /\ success' = TRUE
                /\ pc' = "sv_finally"
           ELSE /\ log' = log \o paused
                /\ pc' = "sv_except"
                /\ UNCHANGED success
    /\ UNCHANGED << now, tzOffset, sysOffset, skip_keywords, args, cal,
                    lecture_time, events, is_conf, reason, out, exit_code,
                    submit_calls, today_str, playwright, browser, page,
                    date_field, raising >>
    /\ Caught("finish")

\* if dry_run: page.pause(), else the click on submit/next
SvFinish ==
    /\ pc = "sv_finish"
    /\ IF args.dry_run
       THEN /\ log' = Append(log, Entry("pause2", page, 0))
            /\ \E ok \in BOOLEAN :
                IF ok THEN success' = TRUE /\ pc' = "sv_finally"
                ELSE pc' = "sv_except" /\ UNCHANGED success
       ELSE LET i == Click(SubmitLocator(page))
            IN  IF i # 0
                THEN /\ log' = Append(log, Entry("click_submit", page, i))
                     /\ success' = TRUE
                     /\ pc' = "sv_finally"
                ELSE /\ pc' = "sv_except"
                     /\ UNCHANGED <<log, success>>
    /\ Caught("finish")
    /\ UNCHANGED << now, tzOffset, sysOffset, skip_keywords, args, cal,
                    lecture_time, events, is_conf, reason, out, exit_code,
                    submit_calls, today_str, playwright, browser, page,
                    date_field, raising >>

\* except Exception as e
SvExcept ==
    /\ pc = "sv_except"
    /\ IF args.dry_run
       THEN /\ log' = log \o <<Entry("except", page, 0), Entry("pause3", page, 0)>>
            /\ \E ok \in BOOLEAN :
                IF ok THEN success' = FALSE /\ UNCHANGED raising
                ELSE raising' = TRUE /\ UNCHANGED success
       ELSE /\ log' = Append(log, Entry("except", page, 0))
            /\ success' = FALSE
            /\ UNCHANGED raising
    /\ pc' = "sv_finally"
    /\ UNCHANGED << now, tzOffset, sysOffset, skip_keywords, args, cal,
                    lecture_time, events, is_conf, reason, out, exit_code,
                    submit_calls, today_str, playwright, browser, page,
                    date_field, error >>

\* the function without its finally clause: only the with block ends
SvFinallyWithoutClose ==
    /\ pc = "sv_finally"
    /\ browser' = WithExit(browser)
    /\ playwright' = "stopped"
    /\ IF ~raising
       THEN pc' = "main_return" /\ UNCHANGED <<raising, exit_code>>
       ELSE exit_code' = 1 /\ pc' = "exit" /\ UNCHANGED raising
    /\ UNCHANGED << now, tzOffset, sysOffset, skip_keywords, args, cal,
                    lecture_time, events, is_conf, reason, out, log,
                    submit_calls, today_str, page, date_field, success, error >>

\* finally: browser.close(), then the exit of the with block
SvFinally ==
    /\ pc = "sv_finally"
    /\ log' = Append(log, Entry("close", page, 0))
    /\ browser' = "closed"
    /\ playwright' = "stopped"
    /\ \E ok \in BOOLEAN :
        IF ok /\ ~raising
        THEN pc' = "main_return" /\ UNCHANGED <<raising, exit_code>>
        ELSE raising' = TRUE /\ exit_code' = 1 /\ pc' = "exit"
    /\ UNCHANGED << now, tzOffset, sysOffset, skip_keywords, args, cal,
                    lecture_time, events, is_conf, reason, out,
                    submit_calls, today_str, page, date_field, success, error >>

---------------------------------------------------------------------------
\* main

\* what the calendar URL may answer
Component(name, dt, has, summary) ==
    [name |-> name, dtstart |-> dt, has_summary |-> has, summary |-> summary]

Feed(err, c) == [failure |-> err, cal |-> c]

\* the print calls before the try statement
Start ==
    /\ pc = "start"
    /\ out' = Append(out, "header")
    /\ pc' = "check"
    /\ UNCHANGED << now, tzOffset, sysOffset, skip_keywords, args, cal,
                    lecture_time, events, is_conf, reason, exit_code,
                    submit_calls, today_str, playwright, browser, page, log,
                    date_field, raising, success, error >>

\* the except clause of main without its return statement
CalendarFailedFallsThrough ==
    /\ is_conf' = TRUE
    /\ out' = out \o (IF ~args.force THEN <<"warning", "guidance">>
                                    ELSE <<"warning", "proceeding">>)
    /\ pc' = "decide"
    /\ UNCHANGED <<exit_code, reason>>

\* the except clause of main
CalendarFailed ==
    IF ~args.force
    THEN /\ out' = out \o <<"warning", "guidance">>
         /\ exit_code' = 1
         /\ pc' = "exit"
         /\ UNCHANGED <<is_conf, reason>>
    ELSE /\ is_conf' = TRUE
         /\ out' = out \o <<"warning", "proceeding">>
         /\ pc' = "decide"
         /\ UNCHANGED <<exit_code, reason>>

\* the try statement of main
CheckCalendar(feeds) ==
    /\ pc = "check"
    /\ \E f \in feeds :
        IF f.failure # "none"
        THEN CalendarFailed /\ UNCHANGED <<cal, events>>
        ELSE LET evs == get_todays_events(f.cal, now, tzOffset, args.time)
                 res == is_conference_day(evs, skip_keywords)
             IN  /\ cal' = f.cal
                 /\ events' = evs
                 /\ IF res.raised
                    THEN CalendarFailed
                    ELSE /\ is_conf' = res.is_conf
                         /\ reason' = res.reason
                         /\ out' = Append(out, "reason")
                         /\ pc' = "decide"
                         /\ UNCHANGED exit_code
    /\ UNCHANGED << now, tzOffset, sysOffset, skip_keywords, args,
                    lecture_time, submit_calls, today_str, playwright,
                    browser, page, log, date_field, raising, success, error >>

\* datetime.now().strftime("%m/%d/%Y")
TodayString(t, sys) == FormatDate(Civil(WallClock(t, sys).day))

\* a slip in the condition of step 2: the second "not" is lost
ShouldSkipForced(conf, force) == ~conf /\ force

\* if not is_conf and not args.force
ShouldSkip(conf, force) == ~conf /\ ~force

\* step 2 and the call of step 3
Decide ==
    /\ pc = "decide"
    /\ IF ShouldSkip(is_conf, args.force)
       THEN /\ out' = Append(out, "skipping")
            /\ exit_code' = 0
            /\ pc' = "exit"
            /\ UNCHANGED <<lecture_time, submit_calls, today_str>>
       ELSE /\ out' = Append(out, "submitting")
            /\ lecture_time' = args.time
            /\ submit_calls' = submit_calls + 1
            /\ today_str' = TodayString(now, sysOffset)
            /\ pc' = "sv_start"
            /\ UNCHANGED exit_code
    /\ UNCHANGED << now, tzOffset, sysOffset, skip_keywords, args, cal,
                    events, is_conf, reason, playwright, browser, page, log,
                    date_field, raising, success, error >>

\* return 0 if success else 1
MainReturn ==
    /\ pc = "main_return"
    /\ exit_code' = IF success THEN 0 ELSE 1
    /\ pc' = "exit"
    /\ UNCHANGED << now, tzOffset, sysOffset, skip_keywords, args, cal,
                    lecture_time, events, is_conf, reason, out,
                    submit_calls, today_str, playwright, browser, page, log,
                    date_field, raising, success, error >>

---------------------------------------------------------------------------
\* The run of main

Gr == <<"G", "r">>

Ad == <<"A", "d">>

\* the instant of the run: day 3, 03:00 UTC (day 2, 19:00 at UTC-8)
Nows == {75}

\* the zones of the configuration and of the machine
MainZones == {-8, 0}

ConfigKeywords == { << <<"a", "d">>, <<"w", "e">> >>, << <<"a", "d">>, NonText >> }

MainFeeds ==
    { Feed("NetworkError", << >>),
      Feed("FormatError", << >>),
      Feed("none", << >>),
      Feed("none", << Component("VEVENT", NaiveDateTime(2, 9), TRUE, Gr) >>),
      Feed("none", << Component("VEVENT", NaiveDateTime(2, 9), TRUE, Gr),
                      Component("VEVENT", DateValue(2), TRUE, Ad) >>),
      Feed("none", << Component("VTIMEZONE", NoDtStart, FALSE, << >>),
                      Component("VEVENT", DateValue(3), TRUE, Gr) >>) }

\* the locals of main before the calendar step
NoCalendar == cal = << >> /\ events = << >> /\ is_conf = FALSE /\ reason = << >>

\* the state before submit_survey is called
NoSurvey ==
    /\ out = << >>
    /\ exit_code = -1
    /\ submit_calls = 0
    /\ today_str = << >>
    /\ playwright = "none"
    /\ browser = "none"
    /\ page = << >>
    /\ log = << >>
    /\ date_field = <<"prefilled">>
    /\ error = "none"
    /\ raising = FALSE
    /\ success = FALSE

Init ==
    /\ now \in Nows
    /\ tzOffset \in MainZones
    /\ sysOffset \in MainZones
    /\ skip_keywords \in ConfigKeywords
    /\ args \in [time : {"8AM", "12PM"}, dry_run : BOOLEAN, force : BOOLEAN]
    /\ pc = "start"
    /\ lecture_time = NoValue
    /\ NoCalendar
    /\ NoSurvey

Next ==
    \/ Start
    \/ CheckCalendar(MainFeeds)
    \/ Decide
    \/ SvStart
    \/ SvLaunch
    \/ SvNewPage
    \/ SvGoto
    \/ SvPage1
    \/ SvPause1
    \/ SvNext
    \/ SvDate
    \/ SvAnswers
    \/ SvFinish
    \/ SvExcept
    \/ SvFinally
    \/ MainReturn

Spec == Init /\ [][Next]_vars

---------------------------------------------------------------------------
\* is_conference_day on its own: every event list and keyword list of the
\* bounds, then one call

Summaries == { << >>, Ad, <<"a", "d">>, Gr, <<"W", "e">>, <<"d", "W", "E">> }

Keywords == { << >>, <<"a", "d">>, <<"A", "D">>, <<"w", "e">>, <<"d">>, NonText }

ClassifyEvents == {[summary |-> x, start |-> DateValue(2)] : x \in Summaries}

InitClassify ==
    /\ now \in Nows
    /\ tzOffset = 0
    /\ sysOffset = 0
    /\ args = [time |-> "8AM", dry_run |-> FALSE, force |-> FALSE]
    /\ pc = "classify"
    /\ cal = << >> /\ lecture_time = NoValue /\ is_conf = FALSE /\ reason = << >>
    /\ NoSurvey
    /\ events \in SeqsUpTo(ClassifyEvents, MaxEvents)
    /\ skip_keywords \in SeqsUpTo(Keywords, MaxKeywords)

\* is_conf, reason = is_conference_day(events, CONFIG["skip_keywords"])
ClassifyCall ==
    /\ pc = "classify"
    /\ LET res == is_conference_day(events, skip_keywords)
       IN  IF res.raised
           THEN pc' = "classify_raised" /\ UNCHANGED <<is_conf, reason>>
           ELSE /\ is_conf' = res.is_conf
                /\ reason' = res.reason
                /\ pc' = "classified"
    /\ UNCHANGED << now, tzOffset, sysOffset, skip_keywords, args, cal,
                    lecture_time, events, out, exit_code, submit_calls,
                    today_str, playwright, browser, page, log, date_field,
                    raising, success, error >>

SpecClassify == InitClassify /\ [][ClassifyCall]_vars

---------------------------------------------------------------------------
\* get_todays_events on its own: every calendar of the bounds, then one call

Zones == {-8, 0, 9}

\* day 2, 17:00 UTC; day 2, 18:00 UTC; day 3, 03:00 UTC
FilterInstants == {65, 66, 75}

FilterNows == {65, 75}

WallClocks == {WallClock(t, z) : t \in FilterInstants, z \in Zones}

DtStarts ==
    {DateValue(d) : d \in {2, 3}}
    \cup {NaiveDateTime(w.day, w.hour) : w \in WallClocks}
    \cup {AwareDateTime(WallClock(t, z).day, WallClock(t, z).hour, z) :
            t \in FilterInstants, z \in Zones}

FilterComponents ==
    {Component("VEVENT", dt, TRUE, Gr) : dt \in DtStarts}
    \cup { Component("VEVENT", NoDtStart, TRUE, Gr),
           Component("VEVENT", DateValue(2), FALSE, << >>),
           Component("VTODO", DateValue(2), TRUE, Ad) }

LectureTimes == {"8AM", "12PM", NoValue}

InitFilter ==
    /\ now \in FilterNows
    /\ tzOffset \in Zones
    /\ sysOffset = 0
    /\ skip_keywords = << >>
    /\ args = [time |-> "8AM", dry_run |-> FALSE, force |-> FALSE]
    /\ pc = "filter"
    /\ events = << >> /\ is_conf = FALSE /\ reason = << >>
    /\ NoSurvey
    /\ cal \in SeqsUpTo(FilterComponents, MaxComponents)
    /\ lecture_time \in LectureTimes

\* events = get_todays_events(cal, tz, lecture_time)
FilterCall ==
    /\ pc = "filter"
    /\ events' = get_todays_events(cal, now, tzOffset, lecture_time)
    /\ pc' = "filtered"
    /\ UNCHANGED << now, tzOffset, sysOffset, skip_keywords, args, cal,
                    lecture_time, is_conf, reason, out, exit_code,
                    submit_calls, today_str, playwright, browser, page, log,
                    date_field, raising, success, error >>

SpecFilter == InitFilter /\ [][FilterCall]_vars

---------------------------------------------------------------------------
\* Properties

Printed(tag) == \E k \in DOMAIN out : out[k] = tag

\* the calendar step of main ended without an exception
CalendarSucceeded == Printed("reason")

\* the calendar step of main ended in its except clause
CalendarRaised == Printed("warning")

\* C1: when the calendar step succeeds, is_conference_day returns
\* decision=false and --force is absent, main prints the skip message, ends
\* with exit code 0 and never calls submit_survey, whatever --time and
\* --dry-run are.
C1_SkipWithoutSubmit ==
    (CalendarSucceeded /\ ~is_conf /\ ~args.force) =>
        /\ pc \in {"decide", "exit"}
        /\ submit_calls = 0
        /\ browser = "none"
        /\ log = << >>
        /\ pc = "exit" => /\ exit_code = 0
                          /\ out[Len(out)] = "skipping"

C1_Witness ==
    /\ pc = "exit"
    /\ CalendarSucceeded
    /\ events # << >>
    /\ ~is_conf
    /\ ~args.force
    /\ args.dry_run
    /\ exit_code = 0

\* C2: when the calendar step raises, main without --force prints the
\* guidance, ends with exit code 1 and never calls submit_survey; with
\* --force it goes on to submit_survey as it does after a decision of true.
C2_CalendarFailure ==
    CalendarRaised =>
        IF ~args.force
        THEN /\ pc = "exit"
             /\ exit_code = 1
             /\ Printed("guidance")
             /\ submit_calls = 0
             /\ browser = "none"
        ELSE /\ is_conf
             /\ ~Printed("skipping")
             /\ pc = "decide" => submit_calls = 0
             /\ pc # "decide" => submit_calls = 1 /\ Printed("submitting")

C2_Witness ==
    /\ CalendarRaised
    /\ args.force
    /\ cal # << >>
    /\ submit_calls = 1
    /\ pc = "exit"
    /\ exit_code = 0

AllText(kws) == \A j \in DOMAIN kws : IsText(kws[j])

\* the events with a matching keyword, and the keywords matching an event
MatchingEvents(evs, kws) ==
    {i \in DOMAIN evs : \E j \in DOMAIN kws : KeywordMatches(evs[i].summary, kws[j])}

MatchingKeywords(ev, kws) == {j \in DOMAIN kws : KeywordMatches(ev.summary, kws[j])}

Least(S) == CHOOSE x \in S : \A y \in S : x <= y

\* C3: for a non-empty event list with a summary that contains a skip
\* keyword, case ignored, is_conference_day returns decision=false and the
\* reason names the earliest event with a match and the earliest keyword
\* matching that event.
C3_FirstMatchWins ==
    (/\ pc # "classify"
     /\ AllText(skip_keywords)
     /\ events # << >>
     /\ MatchingEvents(events, skip_keywords) # {}) =>
        LET i == Least(MatchingEvents(events, skip_keywords))
            j == Least(MatchingKeywords(events[i], skip_keywords))
        IN  /\ pc = "classified"
            /\ ~is_conf
            /\ reason = <<"Found skip keyword '">> \o skip_keywords[j]
                        \o <<"' in event: ">> \o events[i].summary

C3_Witness ==
    /\ pc = "classified"
    /\ Len(events) = 2
    /\ Len(skip_keywords) = 2
    /\ MatchingKeywords(events[1], skip_keywords) = {2}
    /\ MatchingKeywords(events[2], skip_keywords) = {1}
    /\ ~is_conf

\* where the i-th summary starts in the joined text, less one
RECURSIVE Offset(_, _)
Offset(evs, i) ==
    IF i = 1 THEN 0 ELSE Offset(evs, i - 1) + Len(evs[i - 1].summary) + 2

\* C4: for a non-empty event list with no summary that contains a skip
\* keyword, is_conference_day returns decision=true and a reason that holds
\* every summary, in the order of the list, with ", " between them.
C4_AllSummariesJoined ==
    (/\ pc # "classify"
     /\ AllText(skip_keywords)
     /\ events # << >>
     /\ MatchingEvents(events, skip_keywords) = {}) =>
        LET n == Len(events)
            names == Tail(reason)
        IN  /\ pc = "classified"
            /\ is_conf
            /\ Head(reason) = "Conference day detected. Events: "
            /\ Len(names) = Offset(events, n) + Len(events[n].summary)
            /\ \A i \in 1..n :
                 SubSeq(names, Offset(events, i) + 1,
                        Offset(events, i) + Len(events[i].summary))
                   = events[i].summary
            /\ \A i \in 2..n :
                 /\ names[Offset(events, i) - 1] = ","
                 /\ names[Offset(events, i)] = " "

C4_Witness ==
    /\ pc = "classified"
    /\ is_conf
    /\ Len(events) = 2
    /\ events[1].summary = Gr
    /\ events[2].summary = <<"W", "e">>
    /\ skip_keywords # << >>

\* the component is in the output of get_todays_events
Included(component) ==
    \E k \in DOMAIN events :
        /\ events[k].start = component.dtstart
        /\ events[k].summary = SummaryOf(component)

Today == WallClock(now, tzOffset).day

\* C6: an event whose DTSTART is a date is in the output exactly when its
\* date is today in the configured timezone, for every time window.
C6_DateOnlyByDateAlone ==
    pc = "filtered" =>
        \A i \in DOMAIN cal :
            (cal[i].name = "VEVENT" /\ cal[i].dtstart.kind = "date") =>
                (Included(cal[i]) <=> cal[i].dtstart.day = Today)

C6_Witness ==
    /\ pc = "filtered"
    /\ lecture_time = "8AM"
    /\ Len(cal) = 2
    /\ cal[1].name = "VEVENT" /\ cal[1].dtstart = DateValue(Today)
    /\ cal[2].name = "VEVENT" /\ cal[2].dtstart.kind = "datetime"
    /\ cal[2].dtstart.day = Today
    /\ Len(events) = 1
    /\ events[1].start = cal[1].dtstart

\* C5: a naive and an aware date-time event that are the same wall-clock
\* moment in the configured timezone are both in the output of
\* get_todays_events or both left out, for every time window.
C5_NaiveAwareAgree ==
    pc = "filtered" =>
        \A i, j \in DOMAIN cal :
            (/\ cal[i].name = "VEVENT" /\ cal[j].name = "VEVENT"
             /\ cal[i].dtstart.kind = "datetime" /\ ~cal[i].dtstart.aware
             /\ cal[j].dtstart.kind = "datetime" /\ cal[j].dtstart.aware
             /\ WallClock(InstantOf(cal[j].dtstart), tzOffset)
                  = [day |-> cal[i].dtstart.day, hour |-> cal[i].dtstart.hour]) =>
                (Included(cal[i]) <=> Included(cal[j]))

\* submit_survey was left, by a return or by an exception
SurveyLeft == submit_calls = 1 /\ pc \in {"main_return", "exit"}

\* C7: on every path of submit_survey that opened a browser, the browser is
\* closed when submit_survey is left; on the paths through the try statement
\* it is closed by the finally clause, as the last thing done to it.
C7_BrowserClosed ==
    (SurveyLeft /\ browser # "none") =>
        /\ browser = "closed"
        /\ log # << >> => log[Len(log)].ev = "close"

C7_Witness ==
    /\ pc = "exit"
    /\ ~args.dry_run
    /\ Logged("click_next")
    /\ Logged("except")
    /\ ~success
    /\ exit_code = 1
    /\ browser = "closed"

SubmitTried == ~args.dry_run /\ (Logged("click_submit") \/ error = "finish")

\* the control submit_survey invoked at step 10, 0 when it invoked none
SubmitClicked ==
    IF Logged("click_submit")
    THEN (CHOOSE k \in DOMAIN log : log[k].ev = "click_submit")
    ELSE 0

\* the three kinds of "next" control: the aria label, the arrow, the class
IsNextKind(c) == (c.tag = "button" /\ (c.aria_next \/ c.arrow)) \/ c.next_class

\* C9 as stated: step 10 invokes a control exactly when the search of step 5
\* finds one on the same page, and the same control.
C9_SameSearchAsStep5 ==
    SubmitTried =>
        LET i == Click(NextLocator(page))
        IN  IF i = 0 THEN SubmitClicked = 0
            ELSE SubmitClicked # 0 /\ log[SubmitClicked].idx = i

\* C9 as amended: step 10 searches for the first three candidates of step 5
\* only.  The control it invokes is labelled "Next", shows the arrow or
\* carries the class; on a page with no such control it invokes nothing and
\* submit_survey returns failure, also where step 5 finds the last button.
C9_SubmitSearchWithoutLastButton ==
    SubmitTried =>
        /\ SubmitClicked # 0 =>
             /\ log[SubmitClicked].idx \in DOMAIN page
             /\ IsNextKind(page[log[SubmitClicked].idx])
             /\ log[SubmitClicked].ctl = page[log[SubmitClicked].idx]
        /\ (\A i \in DOMAIN page : ~IsNextKind(page[i])) =>
             /\ SubmitClicked = 0
             /\ error = "finish"
             /\ ~success

C9_Witness ==
    /\ SubmitTried
    /\ pc = "exit"
    /\ exit_code = 0
    /\ Len(page) = 2
    /\ ~IsNextKind(page[1])
    /\ SubmitClicked # 0
    /\ log[SubmitClicked].idx = 2

\* C10: the date submit_survey writes into the date field of page 2 is the
\* date main and get_todays_events take as today in the configured timezone.
C10_SameToday ==
    Logged("fill_date") => date_field = FormatDate(Civil(Today))

=============================================================================
